---- MODULE Spec2Model ----
(***************************************************************************)
(* Progressive job-search acquisition and caching engine of resume-app:    *)
(* JobCache (request budget + result cache, src/src/utils/jobCache.ts),    *)
(* JobApiService (search orchestration, src/src/utils/jobApi.ts) and the   *)
(* consumer JobsScreen.loadJobs (src/unnamed/part_003).                    *)
(*                                                                         *)
(* Strings are TLA+ strings; TLC evaluates Len, SubSeq and \o on them.     *)
(* Time is in milliseconds, as Date.now().                                 *)
(***************************************************************************)
EXTENDS Integers, Sequences, FiniteSets, TLC

VARIABLES
  now,        \* Date.now(), ms since the start of the behaviour
  month,      \* the calendar month new Date() falls in
  ticks,      \* number of clock advances so far (bounds the model)
  tracker,    \* AsyncStorage[REQUEST_COUNT_KEY]: NoTracker or a RequestTracker
  cache,      \* AsyncStorage entries under CACHE_PREFIX: key -> CacheEntry
  calls,      \* history: trackRequest calls completed in the current month
  allowed,    \* history: of these, calls that returned canMakeRequest = true
  lastTrack,  \* history: result of the last completed sequential trackRequest
  feed,       \* the upstream's data set: [size, untitled]
  apiKey,     \* CONFIG.RAPIDAPI_KEY is set
  srch,       \* per slot: one loadJobs/searchJobs invocation and its background loop
  faults,     \* number of upstream requests that failed so far
  upstream,   \* history: upstream HTTP requests issued in the current month
  ui,         \* JobsScreen: loadingState
  lastSearchParams,  \* JobsScreen: lastSearchParams
  probe       \* a call of one operation on its own: its arguments and its result

budgetVars == <<tracker, calls, allowed, lastTrack>>
clockVars == <<now, month, ticks>>
searchVars == <<feed, apiKey, srch, faults, upstream, ui, lastSearchParams>>
vars == <<now, month, ticks, tracker, cache, calls, allowed, lastTrack,
          feed, apiKey, srch, faults, upstream, ui, lastSearchParams, probe>>

-----------------------------------------------------------------------------
(* CACHE_CONFIG *)

CACHE_DURATION == 24 * 60 * 60 * 1000
MAX_CACHE_SIZE == 50
MAX_REQUESTS_PER_MONTH == 200

(* Bounds of the model *)
MaxTicks == 1          \* clock advances per behaviour
ExtraCalls == 3        \* sequential trackRequest calls beyond the ceiling

(* Clock advances; a month boundary may fall within any of them. *)
TickSteps == {1, CACHE_DURATION - 1}

NoTracker == [none |-> TRUE]
NoResult == [none |-> TRUE]
NoProbe == [op |-> "none"]

Min(a, b) == IF a < b THEN a ELSE b
Max(a, b) == IF a > b THEN a ELSE b

-----------------------------------------------------------------------------
(* JobCache.trackRequest, piece by piece *)

\* `${now.getFullYear()}-${String(now.getMonth() + 1).padStart(2, '0')}`,
\* for the m-th month of the behaviour: <<year, month of the year>>
CurrentMonth(m) == <<m \div 12, (m % 12) + 1>>

\* trackerData ? JSON.parse(trackerData) : { count: 0, lastReset: currentMonth }
ParseTracker(trackerData, currentMonth) ==
  IF trackerData = NoTracker
    THEN [count |-> 0, lastReset |-> currentMonth]
    ELSE trackerData

ResetIfNewMonth_KeepsCount(tr, currentMonth) ==
  [tr EXCEPT !.lastReset = currentMonth]

\* Reset counter if it's a new month
ResetIfNewMonth(tr, currentMonth) ==
  IF tr.lastReset # currentMonth
    THEN [count |-> 0, lastReset |-> currentMonth]
    ELSE tr

\* The tracker a call works on after its read of the store
LoadTracker(trackerData, m) ==
  ResetIfNewMonth(ParseTracker(trackerData, CurrentMonth(m)), CurrentMonth(m))

RemainingRequests(tr) == MAX_REQUESTS_PER_MONTH - tr.count

CanMakeRequest_OffByOne(tr) == RemainingRequests(tr) >= 0

CanMakeRequest(tr) == RemainingRequests(tr) > 0

\* tracker.count++ ; what setItem persists
Incremented(tr) == [tr EXCEPT !.count = tr.count + 1]

\* The value trackRequest writes back (unchanged store when refused)
TrackerAfter(trackerData, tr) ==
  IF CanMakeRequest(tr) THEN Incremented(tr) ELSE trackerData

\* return { canMakeRequest, remainingRequests }
TrackResult(tr) ==
  [canMakeRequest |-> CanMakeRequest(tr), remainingRequests |-> RemainingRequests(tr)]

-----------------------------------------------------------------------------
(* String functions of the JavaScript runtime, on TLA+ strings *)

CharAt(s, i) == SubSeq(s, i, i)

UpperCase == "ABCDEFGHIJKLMNOPQRSTUVWXYZ"
LowerCase == "abcdefghijklmnopqrstuvwxyz"
Digits == "0123456789"

\* position of character c in string s, 0 when absent
RECURSIVE IndexFrom(_, _, _)
IndexFrom(s, c, i) ==
  IF i > Len(s) THEN 0
  ELSE IF CharAt(s, i) = c THEN i
  ELSE IndexFrom(s, c, i + 1)

IndexOf(s, c) == IndexFrom(s, c, 1)

LowerChar(c) ==
  IF IndexOf(UpperCase, c) > 0 THEN CharAt(LowerCase, IndexOf(UpperCase, c)) ELSE c

\* String.prototype.toLowerCase
RECURSIVE ToLowerCase(_)
ToLowerCase(s) ==
  IF s = "" THEN "" ELSE LowerChar(CharAt(s, 1)) \o ToLowerCase(SubSeq(s, 2, Len(s)))

\* String.prototype.trim (the whitespace in use is the blank)
RECURSIVE TrimStart(_)
TrimStart(s) ==
  IF s # "" /\ CharAt(s, 1) = " " THEN TrimStart(SubSeq(s, 2, Len(s))) ELSE s

RECURSIVE TrimEnd(_)
TrimEnd(s) ==
  IF s # "" /\ CharAt(s, Len(s)) = " " THEN TrimEnd(SubSeq(s, 1, Len(s) - 1)) ELSE s

Trim(s) == TrimEnd(TrimStart(s))

\* String.prototype.includes
Includes(s, t) ==
  \E i \in 1..(Len(s) - Len(t) + 1) : SubSeq(s, i, i + Len(t) - 1) = t

\* String.prototype.split on a one-character separator
RECURSIVE SplitFrom(_, _, _, _)
SplitFrom(s, sep, i, cur) ==
  IF i > Len(s) THEN <<cur>>
  ELSE IF CharAt(s, i) = sep THEN <<cur>> \o SplitFrom(s, sep, i + 1, "")
  ELSE SplitFrom(s, sep, i + 1, cur \o CharAt(s, i))

Split(s, sep) == SplitFrom(s, sep, 1, "")

\* Array.prototype.join
RECURSIVE Join(_, _)
Join(parts, sep) ==
  IF Len(parts) = 0 THEN ""
  ELSE IF Len(parts) = 1 THEN parts[1]
  ELSE parts[1] \o sep \o Join(Tail(parts), sep)

SeqToSet(q) == {q[i] : i \in 1..Len(q)}

-----------------------------------------------------------------------------
(* JobApiService: client-side location matching *)

\* stateMap of getLocationVariations
StateMap == <<
  <<"california", <<"ca", "calif">> >>,       <<"ca", <<"california", "calif">> >>,
  <<"new york", <<"ny", "new york state">> >>, <<"ny", <<"new york", "new york state">> >>,
  <<"texas", <<"tx", "tex">> >>,              <<"tx", <<"texas", "tex">> >>,
  <<"florida", <<"fl", "fla">> >>,            <<"fl", <<"florida", "fla">> >>,
  <<"illinois", <<"il", "ill">> >>,           <<"il", <<"illinois", "ill">> >>,
  <<"pennsylvania", <<"pa", "penn">> >>,      <<"pa", <<"pennsylvania", "penn">> >>,
  <<"ohio", <<"oh">> >>,                      <<"oh", <<"ohio">> >>,
  <<"michigan", <<"mi", "mich">> >>,          <<"mi", <<"michigan", "mich">> >>,
  <<"georgia", <<"ga">> >>,                   <<"ga", <<"georgia">> >>,
  <<"north carolina", <<"nc", "n.c.">> >>,    <<"nc", <<"north carolina", "n.c.">> >>,
  <<"virginia", <<"va", "virg">> >>,          <<"va", <<"virginia", "virg">> >>,
  <<"washington", <<"wa", "wash">> >>,        <<"wa", <<"washington", "wash">> >>,
  <<"massachusetts", <<"ma", "mass">> >>,     <<"ma", <<"massachusetts", "mass">> >>,
  <<"arizona", <<"az", "ariz">> >>,           <<"az", <<"arizona", "ariz">> >>,
  <<"colorado", <<"co", "colo">> >>,          <<"co", <<"colorado", "colo">> >>,
  <<"nevada", <<"nv", "nev">> >>,             <<"nv", <<"nevada", "nev">> >> >>

GetLocationVariations_None(location) == {}

\* getLocationVariations: the variants of every stateMap key the location includes
GetLocationVariations(location) ==
  UNION {SeqToSet(StateMap[i][2]) :
           i \in {j \in 1..Len(StateMap) : Includes(location, StateMap[j][1])}}

\* extractLocationSearchTerms (the terms are only used as a set)
ExtractLocationSearchTerms(location) ==
  LET cleanLocation == Trim(ToLowerCase(location))
      parts == IF Includes(cleanLocation, ",")
                 THEN {Trim(Split(cleanLocation, ",")[i]) :
                         i \in 1..Len(Split(cleanLocation, ","))}
                 ELSE {}
  IN {cleanLocation} \cup parts \cup GetLocationVariations(cleanLocation)

CommonWords == {"the", "of", "and", "or", "in", "at", "to", "for", "with"}

StripCommonWords(s) ==
  Join(SelectSeq(Split(s, " "), LAMBDA w : w \notin CommonWords), " ")

\* isLocationMatch
IsLocationMatch(jobLocation, searchTerm) ==
  LET cleanJobLocation == StripCommonWords(jobLocation)
      cleanSearchTerm == StripCommonWords(searchTerm)
  IN IF Len(cleanSearchTerm) >= 3
       THEN Includes(cleanJobLocation, cleanSearchTerm)
       ELSE FALSE

\* the predicate of jobs.filter in filterJobsByLocation
LocationMatches(location, requestedLocation) ==
  LET jobLocation == ToLowerCase(location) IN
  \E term \in ExtractLocationSearchTerms(requestedLocation) :
    Includes(jobLocation, term) \/ IsLocationMatch(jobLocation, term)

-----------------------------------------------------------------------------
(* JobCache: the result cache *)

EmptyCache == [k \in {} |-> 0]

\* x || 'any'
OrAny(x) == IF x = "" THEN "any" ELSE x

\* replace(/[^a-z0-9]/g, '_')
RECURSIVE ReplaceNonAlnum(_)
ReplaceNonAlnum(s) ==
  IF s = "" THEN ""
  ELSE (IF IndexOf(LowerCase, CharAt(s, 1)) > 0 \/ IndexOf(Digits, CharAt(s, 1)) > 0
          THEN CharAt(s, 1) ELSE "_")
       \o ReplaceNonAlnum(SubSeq(s, 2, Len(s)))

\* the keys of the store
CACHE_PREFIX == "job_cache_"
REQUEST_COUNT_KEY == "api_request_count"

\* generateCacheKey
GenerateCacheKey(params) ==
  CACHE_PREFIX \o
  ReplaceNonAlnum(ToLowerCase(
    params.query \o "_" \o OrAny(params.location) \o "_" \o
    OrAny(params.jobType) \o "_" \o OrAny(params.experienceLevel)))

EntryValid_Inclusive(entry, t) == t - entry.timestamp <= CACHE_DURATION

\* now - entry.timestamp < CACHE_DURATION
EntryValid(entry, t) == t - entry.timestamp < CACHE_DURATION

\* getCachedJobs finds a usable entry
CacheHit(c, key, t) == key \in DOMAIN c /\ EntryValid(c[key], t)

\* getCachedJobs finds an entry that has expired
CacheExpired(c, key, t) == key \in DOMAIN c /\ ~EntryValid(c[key], t)

\* AsyncStorage.setItem / removeItem on the cache entries
SetItem(c, key, entry) ==
  [k \in DOMAIN c \cup {key} |-> IF k = key THEN entry ELSE c[k]]

RemoveItem(c, key) == [k \in DOMAIN c \ {key} |-> c[k]]

OldestKeys_Newest(c) ==
  {k \in DOMAIN c : \A j \in DOMAIN c : c[k].timestamp >= c[j].timestamp}

\* the entries a sort by timestamp may put first
OldestKeys(c) ==
  {k \in DOMAIN c : \A j \in DOMAIN c : c[k].timestamp <= c[j].timestamp}

\* cleanupCache: drop the oldest entries beyond MAX_CACHE_SIZE; entries with
\* equal timestamps come in the order getAllKeys happens to give.
RECURSIVE CleanupCache(_)
CleanupCache(c) ==
  IF Cardinality(DOMAIN c) > MAX_CACHE_SIZE
    THEN UNION {CleanupCache(RemoveItem(c, k)) : k \in OldestKeys(c)}
    ELSE {c}

\* cacheJobs: the stores it can leave behind
CacheJobs(c, key, jobs, totalResults, t) ==
  CleanupCache(SetItem(c, key,
                       [data |-> jobs, timestamp |-> t, totalResults |-> totalResults]))

\* String.prototype.startsWith
StartsWith(s, prefix) ==
  Len(s) >= Len(prefix) /\ SubSeq(s, 1, Len(prefix)) = prefix

IsCacheKey_Any(key) == TRUE

\* clearCache: keys.filter(key => key.startsWith(CACHE_PREFIX))
IsCacheKey(key) == StartsWith(key, CACHE_PREFIX)

\* clearCache: the cache entries it leaves
ClearCache(c) == [key \in {k \in DOMAIN c : ~IsCacheKey(k)} |-> c[key]]

\* clearCache: the request tracker it leaves
ClearTracker(trackerData) ==
  IF IsCacheKey(REQUEST_COUNT_KEY) THEN NoTracker ELSE trackerData

-----------------------------------------------------------------------------
(* The upstream and the requests of the model *)

Slots == {1, 2}        \* the searches of a behaviour, each started once, in this order

PAGE_SIZE == 10        \* the full-page size the code compares with
DEFAULT_MAX_PAGES == 10

Queries == <<"dev", "qa", "", " ">>

Params(q, loc, mp) ==
  [query |-> q, location |-> loc, jobType |-> "", experienceLevel |-> "", maxPages |-> mp]

\* what callers ask for (maxPages 0: not given)
Requests ==
  {Params("dev", "", 5), Params("dev", "Texas", 5), Params("qa", "", 1)}

\* what searchJobs is called with when it is called directly
DirectRequests ==
  {Params("", "", 5), Params(" ", "", 1), Params("qa", "", 1), Params("qa", "", 0)}

\* size: records the upstream holds for a query; untitled: rank of a record
\* that lacks job_title (0: none)
Feeds ==
  {[size |-> 0, untitled |-> 0], [size |-> 4, untitled |-> 0],
   [size |-> 10, untitled |-> 3], [size |-> 24, untitled |-> 0],
   [size |-> 24, untitled |-> 3]}

\* starting values of the persisted counter of the current month
InitCounts == {MAX_REQUESTS_PER_MONTH - 1}

QueryIndex(q) == CHOOSE i \in 1..Len(Queries) : Queries[i] = q

\* raw records are numbered per query; n is the rank in the upstream's result list
RawId(q, n) == QueryIndex(q) * 100 + n
RankOf(id) == id % 100

\* data array of the response to page p
UpstreamPage(f, params, p) ==
  [i \in 1..Max(0, Min(PAGE_SIZE, f.size - (p - 1) * PAGE_SIZE)) |->
     RawId(params.query, (p - 1) * PAGE_SIZE + i)]

\* job_title is present
HasTitle(f, id) == RankOf(id) # f.untitled

\* job_city and job_state of a raw record
RawCity(id) ==
  IF RankOf(id) % 2 = 1 /\ (RankOf(id) <= 10 \/ RankOf(id) > 20) THEN "Austin" ELSE "Boston"
RawState(id) == IF RawCity(id) = "Austin" THEN "TX" ELSE "MA"

\* formatLocation
FormatLocation(id) == Join(<<RawCity(id), RawState(id)>>, ", ")

\* the requested locations filterJobsByLocation is called with on its own
FilterLocations == {"Texas", "", " ", "Boston, MA"}

\* the raw records the upstream can serve
AllRawIds ==
  {RawId(Queries[i], n) : i \in 1..Len(Queries), n \in UNION {1..f.size : f \in Feeds}}

\* per requested location, the records jobs.filter of filterJobsByLocation keeps
\* (evaluated once)
KeptByLocation ==
  [req \in {p.location : p \in Requests} \cup FilterLocations |->
     {id \in AllRawIds : LocationMatches(FormatLocation(id), req)}]

\* filterJobsByLocation
FilterJobsByLocation(jobs, requestedLocation) ==
  IF Trim(requestedLocation) = "" THEN jobs
  ELSE SelectSeq(jobs, LAMBDA id : id \in KeptByLocation[requestedLocation])

\* transformRapidApiResponse: map, drop records without a title, filter by location
TransformRapidApiResponse(f, data, requestedLocation) ==
  LET jobs == SelectSeq(data, LAMBDA id : HasTitle(f, id))
      filteredJobs == IF requestedLocation # ""
                        THEN FilterJobsByLocation(jobs, requestedLocation)
                        ELSE jobs
  IN [jobs |-> filteredJobs, total |-> Len(filteredJobs), page |-> 1, hasMore |-> FALSE]

\* the empty response of the early returns and of the catch block
EmptyResponse == [jobs |-> <<>>, total |-> 0, page |-> 1, hasMore |-> FALSE]

\* the response searchJobs returns on a cache hit
HitResponse_DropsFirst(cachedJobs) ==
  [jobs |-> Tail(cachedJobs), total |-> Len(cachedJobs), page |-> 1, hasMore |-> FALSE]

HitResponse(cachedJobs) ==
  [jobs |-> cachedJobs, total |-> Len(cachedJobs), page |-> 1, hasMore |-> FALSE]

\* a rejected promise
Thrown(kind) == [thrown |-> kind]
IsThrown(x) == "thrown" \in DOMAIN x

\* the catch block of searchRapidApiJobsProgressive: a timeout is rethrown as
\* a new Error, anything else as it is
FirstPageCatch(kind) == Thrown(kind)

\* the catch block of searchJobs: Return empty results on error
SearchJobsCatch(x) == IF IsThrown(x) THEN EmptyResponse ELSE x

\* response.budgetExhausted as the caller reads it
BudgetExhaustedFlag(response) ==
  "budgetExhausted" \in DOMAIN response /\ response.budgetExhausted

MaxPagesOf_Five(params) == IF params.maxPages = 0 THEN 5 ELSE params.maxPages

\* params.maxPages || 10
MaxPagesOf(params) == IF params.maxPages = 0 THEN DEFAULT_MAX_PAGES ELSE params.maxPages

IdleSearch ==
  [pc |-> "idle", params |-> Params("", "", 0),
   tr |-> NoTracker, allJobs |-> <<>>, resp |-> NoResult, outcome |-> "none",
   bg |-> "none", page |-> 0, requested |-> <<>>, served |-> <<>>,
   emitted |-> <<>>, superseded |-> FALSE, bgFault |-> <<>>]

\* JobLoadingState, the fields the search results reach
InitialLoadingState ==
  [allJobs |-> <<>>, isLoadingBackground |-> FALSE, backgroundLoadComplete |-> FALSE]

-----------------------------------------------------------------------------
(* The clock *)

Tick(d, newMonth) ==
  /\ ticks < MaxTicks
  /\ now' = now + d
  /\ ticks' = ticks + 1
     \* the per-month history starts afresh in a new month
  /\ IF newMonth
       THEN month' = month + 1 /\ calls' = 0 /\ allowed' = 0 /\ upstream' = 0
       ELSE UNCHANGED <<month, calls, allowed, upstream>>

-----------------------------------------------------------------------------
(* Sequential use of the budget: each call completes before the next *)

TrackRequest ==
  LET tr == LoadTracker(tracker, month) IN
  /\ calls < MAX_REQUESTS_PER_MONTH + ExtraCalls
  /\ tracker' = TrackerAfter(tracker, tr)
  /\ lastTrack' = TrackResult(tr)
  /\ calls' = calls + 1
  /\ allowed' = IF CanMakeRequest(tr) THEN allowed + 1 ELSE allowed
  /\ probe' = [op |-> "trackRequest", found |-> tracker]
  /\ UNCHANGED <<now, month, ticks, cache, searchVars>>

BudgetTick ==
  \E d \in TickSteps, newMonth \in BOOLEAN :
    /\ Tick(d, newMonth)
    /\ UNCHANGED <<tracker, cache, lastTrack>>
    /\ UNCHANGED <<probe, feed, apiKey, srch, faults, ui, lastSearchParams>>

InitBudget ==
  /\ now = 0
  /\ month = 0
  /\ ticks = 0
  /\ tracker \in {NoTracker, [count |-> 0, lastReset |-> CurrentMonth(0)]}
  /\ cache = EmptyCache
  /\ calls = 0
  /\ allowed = 0
  /\ lastTrack = NoResult
  /\ feed = [size |-> 0, untitled |-> 0]
  /\ apiKey = TRUE
  /\ srch = [s \in Slots |-> IdleSearch]
  /\ faults = 0
  /\ upstream = 0
  /\ ui = InitialLoadingState
  /\ lastSearchParams = <<"", "">>
  /\ probe = NoProbe

NextBudget == TrackRequest \/ BudgetTick

SpecBudget == InitBudget /\ [][NextBudget]_vars

\* the cache keys of the requests (evaluated once)
KeyOfRequest == [p \in Requests \cup DirectRequests |-> GenerateCacheKey(p)]

CacheKey(p) == KeyOfRequest[p]

-----------------------------------------------------------------------------
(* JobsScreen.loadJobs -> JobApiService.searchJobs -> background loop.      *)
(* One action per stretch of code between two suspension points; a storage  *)
(* operation takes effect in the step that issues it.                       *)

MaxFaults == 1         \* upstream requests that fail per behaviour

Modes == {"load", "refresh"}

Active(r) == r.pc \notin {"idle", "done"} \/ r.bg = "inflight"

SameSearch(p1, p2) == p1.query = p2.query /\ p1.location = p2.location

\* loadJobs(refresh) is entered: mode "load" from the effect on the search
\* parameters, mode "refresh" as loadJobs(true)
StartLoad(s, p, mode) ==
  LET paramsChanged == <<p.query, p.location>> # lastSearchParams IN
  /\ srch[s].pc = "idle"
  /\ \A t \in Slots : t < s => srch[t].pc # "idle"
  /\ Trim(p.query) # ""
  /\ srch' = [t \in Slots |->
       IF t = s
         THEN [IdleSearch EXCEPT
                 !.params = p,
                 !.pc = IF mode = "load" /\ paramsChanged
                          THEN "clear" ELSE "cacheCheck"]
         ELSE IF Active(srch[t]) /\ ~SameSearch(srch[t].params, p)
                THEN [srch[t] EXCEPT !.superseded = TRUE]
                ELSE srch[t]]
  /\ UNCHANGED <<probe, clockVars, budgetVars, cache, feed, apiKey, faults, upstream, ui,
                 lastSearchParams>>

\* await jobApiService.clearAllCachedData(); setLastSearchParams(currentParams)
ClearStep(s) ==
  /\ srch[s].pc = "clear"
  /\ cache' = ClearCache(cache)
  /\ tracker' = ClearTracker(tracker)
  /\ lastSearchParams' = <<srch[s].params.query, srch[s].params.location>>
  /\ srch' = [srch EXCEPT ![s].pc = "cacheCheck"]
  /\ UNCHANGED <<probe, clockVars, calls, allowed, lastTrack, feed, apiKey, faults,
                 upstream, ui>>

\* searchJobs: getCachedJobs and the return of a cache hit
CacheCheck(s) ==
  LET p == srch[s].params
      key == CacheKey(p)
      cachedJobs == cache[key].data IN
  /\ srch[s].pc = "cacheCheck"
  /\ srch' = [srch EXCEPT ![s] =
       IF CacheHit(cache, key, now)
         THEN [@ EXCEPT !.pc = "returned", !.outcome = "hit",
                        !.resp = HitResponse(cachedJobs)]
         ELSE IF CacheExpired(cache, key, now)
           THEN [@ EXCEPT !.pc = "expire"]
           ELSE [@ EXCEPT !.pc = "trackRead"]]
  /\ UNCHANGED <<probe, clockVars, budgetVars, cache, feed, apiKey, faults,
                 upstream, ui, lastSearchParams>>

\* getCachedJobs: Cache expired, remove it
ExpireStep(s) ==
  /\ srch[s].pc = "expire"
  /\ cache' = RemoveItem(cache, CacheKey(srch[s].params))
  /\ srch' = [srch EXCEPT ![s].pc = "trackRead"]
  /\ UNCHANGED <<probe, clockVars, budgetVars, feed, apiKey, faults, upstream, ui,
                 lastSearchParams>>

\* trackRequest up to the read of the persisted tracker
TrackRead(s) ==
  /\ srch[s].pc = "trackRead"
  /\ srch' = [srch EXCEPT ![s].tr = LoadTracker(tracker, month), ![s].pc = "trackWrite"]
  /\ UNCHANGED <<probe, clockVars, budgetVars, cache, feed, apiKey, faults,
                 upstream, ui, lastSearchParams>>

\* trackRequest from the check to its return, then searchJobs up to the
\* first-page request
TrackWrite(s) ==
  LET tr == srch[s].tr IN
  /\ srch[s].pc = "trackWrite"
  /\ tracker' = TrackerAfter(tracker, tr)
  /\ calls' = calls + 1
  /\ allowed' = IF CanMakeRequest(tr) THEN allowed + 1 ELSE allowed
  /\ IF ~TrackResult(tr).canMakeRequest
       THEN /\ srch' = [srch EXCEPT ![s].pc = "returned", ![s].outcome = "refused",
                                    ![s].resp = EmptyResponse, ![s].tr = NoTracker]
            /\ UNCHANGED upstream
       ELSE IF ~apiKey
         THEN /\ srch' = [srch EXCEPT ![s].pc = "returned", ![s].outcome = "nokey",
                                      ![s].resp = EmptyResponse, ![s].tr = NoTracker]
              /\ UNCHANGED upstream
         ELSE /\ srch' = [srch EXCEPT ![s].pc = "firstPage", ![s].page = 1,
                                      ![s].requested = <<1>>, ![s].tr = NoTracker]
              /\ upstream' = upstream + 1
  /\ UNCHANGED <<probe, clockVars, lastTrack, cache, feed, apiKey, faults, ui,
                 lastSearchParams>>

ShouldCache_Always(response) == TRUE

\* searchJobs: Cache the results if we got any
ShouldCache(response) == Len(response.jobs) > 0

\* the loop is started, or goes on, with the request for page p
IssuePage(r, p) ==
  [r EXCEPT !.bg = "inflight", !.page = p, !.requested = Append(@, p)]

\* searchRapidApiJobsProgressive after the first page arrived, then searchJobs
\* to its return (cacheJobs included)
FirstPageOk(s) ==
  LET r == srch[s]
      p == r.params
      firstPageData == UpstreamPage(feed, p, 1)
      firstBatchResponse == TransformRapidApiResponse(feed, firstPageData, p.location)
      more == Len(firstPageData) >= PAGE_SIZE /\ MaxPagesOf(p) > 1
      response == [firstBatchResponse EXCEPT !.hasMore = more]
      r1 == [r EXCEPT !.allJobs = firstPageData, !.resp = SearchJobsCatch(response),
                      !.served = <<Len(firstPageData)>>,
                      !.outcome = "ok", !.pc = "returned"]
  IN
  /\ r.pc = "firstPage"
  /\ srch' = [srch EXCEPT ![s] = IF more THEN IssuePage(r1, 2) ELSE r1]
  /\ upstream' = IF more THEN upstream + 1 ELSE upstream
  /\ IF ShouldCache(response)
       THEN cache' \in CacheJobs(cache, CacheKey(p), response.jobs, response.total, now)
       ELSE UNCHANGED cache
  /\ UNCHANGED <<probe, clockVars, budgetVars, feed, apiKey, faults, ui,
                 lastSearchParams>>

\* the first-page request fails (kind: "timeout" or "error"); the catch block
\* of searchRapidApiJobsProgressive rethrows, the one of searchJobs returns
FirstPageFail(s, kind) ==
  /\ srch[s].pc = "firstPage"
  /\ faults < MaxFaults
  /\ faults' = faults + 1
  /\ srch' = [srch EXCEPT ![s].pc = "returned", ![s].outcome = kind,
                          ![s].resp = SearchJobsCatch(FirstPageCatch(kind))]
  /\ UNCHANGED <<probe, clockVars, budgetVars, cache, feed, apiKey, upstream, ui,
                 lastSearchParams>>

\* loadJobs after await searchJobs: setLoadingState(newState)
Deliver(s) ==
  LET response == srch[s].resp IN
  /\ srch[s].pc = "returned"
  /\ ui' = IF IsThrown(response)
             THEN [allJobs |-> <<>>, isLoadingBackground |-> FALSE,
                   backgroundLoadComplete |-> TRUE]
             ELSE [allJobs |-> response.jobs,
                   isLoadingBackground |-> response.hasMore,
                   backgroundLoadComplete |-> ~response.hasMore]
  /\ srch' = [srch EXCEPT ![s].pc = "done"]
  /\ UNCHANGED <<probe, clockVars, budgetVars, cache, feed, apiKey, faults,
                 upstream, lastSearchParams>>

\* progressCallback of loadJobs
ProgressCallback(state, jobs) ==
  [state EXCEPT !.allJobs = jobs, !.isLoadingBackground = FALSE,
                !.backgroundLoadComplete = TRUE]

NextPage_NoLimit(r) == IssuePage(r, r.page + 1)

\* the for statement steps to the next page or ends
NextPage(r) ==
  IF r.page + 1 <= MaxPagesOf(r.params)
    THEN IssuePage(r, r.page + 1)
    ELSE [r EXCEPT !.bg = "done"]

\* after a page with n > 0 records was emitted: stop on a short page, else
\* delay and go on
AfterPage_NoShortBreak(r, n) == NextPage(r)

AfterPage(r, n) ==
  IF n < PAGE_SIZE THEN [r EXCEPT !.bg = "done"] ELSE NextPage(r)

\* loadRemainingPagesInBackground: the response to the page in flight arrives
BgPageOk(s) ==
  LET r == srch[s]
      pageData == UpstreamPage(feed, r.params, r.page)
      all == r.allJobs \o pageData
      transformed == TransformRapidApiResponse(feed, all, r.params.location)
      r0 == [r EXCEPT !.served = Append(@, Len(pageData))]
      r1 == [r0 EXCEPT !.allJobs = all, !.emitted = Append(@, transformed.jobs)]
      r2 == IF Len(pageData) = 0 THEN [r0 EXCEPT !.bg = "done"]
            ELSE AfterPage(r1, Len(pageData))
  IN
  /\ r.bg = "inflight"
  /\ srch' = [srch EXCEPT ![s] = r2]
  /\ ui' = IF Len(pageData) = 0 THEN ui
           ELSE ProgressCallback(ui, transformed.jobs)
  /\ upstream' = IF r2.bg = "inflight" THEN upstream + 1 ELSE upstream
  /\ UNCHANGED <<probe, clockVars, budgetVars, cache, feed, apiKey, faults,
                 lastSearchParams>>

AfterFailure_AlwaysContinue(r, kind) == NextPage(r)

\* the catch block inside the loop: a timeout waits and continues with the
\* next page, any other error breaks
AfterFailure(r, kind) ==
  IF kind = "timeout" THEN NextPage(r) ELSE [r EXCEPT !.bg = "done"]

\* loadRemainingPagesInBackground: the request in flight fails (bgFault
\* remembers the kind of the failure and the page it hit)
BgPageFail(s, kind) ==
  LET r == srch[s]
      r2 == AfterFailure([r EXCEPT !.bgFault = <<kind, r.page>>], kind)
  IN
  /\ r.bg = "inflight"
  /\ faults < MaxFaults
  /\ faults' = faults + 1
  /\ srch' = [srch EXCEPT ![s] = r2]
  /\ upstream' = IF r2.bg = "inflight" THEN upstream + 1 ELSE upstream
  /\ UNCHANGED <<probe, clockVars, budgetVars, cache, feed, apiKey, ui,
                 lastSearchParams>>

\* time passes between searches (every request of a search has a timeout of
\* seconds, the cache lives for a day)
SearchTick ==
  \E newMonth \in BOOLEAN :
    /\ \A s \in Slots : ~Active(srch[s])
    /\ Tick(CACHE_DURATION, newMonth)
    /\ UNCHANGED <<tracker, cache, lastTrack>>
    /\ UNCHANGED <<probe, feed, apiKey, srch, faults, ui, lastSearchParams>>

FailureKinds == {"timeout", "error"}

Init ==
  /\ now = 0
  /\ month = 0
  /\ ticks = 0
  /\ tracker \in {NoTracker} \cup
                 {[count |-> c, lastReset |-> CurrentMonth(0)] : c \in InitCounts}
  /\ cache = EmptyCache
  /\ calls = IF tracker = NoTracker THEN 0 ELSE tracker.count
  /\ allowed = calls
  /\ upstream = calls
  /\ lastTrack = NoResult
  /\ feed \in Feeds
  /\ apiKey \in BOOLEAN
  /\ srch = [s \in Slots |-> IdleSearch]
  /\ faults = 0
  /\ ui = InitialLoadingState
  /\ lastSearchParams = <<"", "">>
  /\ probe = NoProbe

Next ==
  \/ \E s \in Slots, p \in Requests, mode \in Modes : StartLoad(s, p, mode)
  \/ \E s \in Slots : ClearStep(s)
  \/ \E s \in Slots : CacheCheck(s)
  \/ \E s \in Slots : ExpireStep(s)
  \/ \E s \in Slots : TrackRead(s)
  \/ \E s \in Slots : TrackWrite(s)
  \/ \E s \in Slots : FirstPageOk(s)
  \/ \E s \in Slots, kind \in FailureKinds : FirstPageFail(s, kind)
  \/ \E s \in Slots : Deliver(s)
  \/ \E s \in Slots : BgPageOk(s)
  \/ \E s \in Slots, kind \in FailureKinds : BgPageFail(s, kind)
  \/ SearchTick

Spec == Init /\ [][Next]_vars

-----------------------------------------------------------------------------
\* C1: within one calendar month, starting from usedCount = 0, exactly
\* min(N, ceiling) of N consecutive trackRequest calls are allowed, and once
\* the ceiling has been reached every further call is refused.
C1_BudgetMonotone ==
  /\ allowed = Min(calls, MAX_REQUESTS_PER_MONTH)
  /\ (calls > MAX_REQUESTS_PER_MONTH => lastTrack.canMakeRequest = FALSE)

C1_Witness ==
  /\ calls = MAX_REQUESTS_PER_MONTH + 1
  /\ allowed = MAX_REQUESTS_PER_MONTH
  /\ lastTrack.canMakeRequest = FALSE

-----------------------------------------------------------------------------
Lens(q) == [i \in 1..Len(q) |-> Len(q[i])]

TrackInFlight == \E s \in Slots : srch[s].pc = "trackWrite"

\* C2: under overlapping trackRequest calls the number of allowed calls of a
\* month never exceeds the ceiling, and once no call is in flight the persisted
\* usedCount equals the number of calls that were allowed.
C2_AtomicBudget ==
  /\ allowed <= MAX_REQUESTS_PER_MONTH
  /\ (~TrackInFlight => LoadTracker(tracker, month).count = allowed)

\* C3: the upstream page requests of a month are at most the ceiling, each one
\* preceded by a successful trackRequest of its own.
C3_UpstreamWithinBudget ==
  /\ upstream <= MAX_REQUESTS_PER_MONTH
  /\ upstream <= allowed

\* C4: a search whose key has a valid cache entry returns exactly the cached
\* list and touches neither budget, upstream, cache, background loop nor
\* progress callback; and right after a search that returned jobs, its key has
\* a valid entry holding those jobs.
C4_CacheHitNoEffect ==
  /\ [](\A s \in Slots : srch[s].outcome = "hit" =>
          /\ srch[s].requested = <<>> /\ srch[s].emitted = <<>>
          /\ srch[s].bg = "none" /\ srch[s].resp.hasMore = FALSE)
  /\ [][\A s \in Slots :
          /\ (srch[s].pc = "cacheCheck" /\ srch'[s].pc # "cacheCheck"
                /\ CacheHit(cache, CacheKey(srch[s].params), now))
             => /\ srch'[s].outcome = "hit"
                /\ srch'[s].resp.jobs = cache[CacheKey(srch[s].params)].data
                /\ srch'[s].resp.total = Len(cache[CacheKey(srch[s].params)].data)
                /\ UNCHANGED <<tracker, allowed, calls, upstream, cache, ui>>
          /\ (srch[s].pc = "firstPage" /\ srch'[s].outcome = "ok"
                /\ Len(srch'[s].resp.jobs) > 0)
             => /\ CacheHit(cache', CacheKey(srch[s].params), now')
                /\ cache'[CacheKey(srch[s].params)].data = srch'[s].resp.jobs]_vars

C4_Witness ==
  \E s, t \in Slots :
    /\ srch[s].outcome = "ok" /\ srch[t].outcome = "hit" /\ srch[t].pc = "done"
    /\ srch[s].params = srch[t].params
    /\ Len(srch[t].resp.jobs) > 0
    /\ srch[t].resp.jobs = srch[s].resp.jobs

\* C5: when a search and its background loop are done, the cache entry of its
\* key holds the final accumulated set, the one last emitted.
C5_CacheHoldsFinalSet ==
  \A s \in Slots :
    (/\ srch[s].outcome = "ok" /\ srch[s].pc = "done" /\ srch[s].bg = "done"
     /\ srch[s].emitted # <<>>
     /\ CacheHit(cache, CacheKey(srch[s].params), now))
    => cache[CacheKey(srch[s].params)].data = srch[s].emitted[Len(srch[s].emitted)]

\* C6: a search the budget refuses returns no jobs with budgetExhausted set,
\* issues no upstream request, and its result differs from the one of a
\* search that found no jobs.
C6_RefusalFlagged ==
  \A s \in Slots :
    srch[s].outcome = "refused" =>
      /\ srch[s].resp.jobs = <<>>
      /\ srch[s].requested = <<>>
      /\ BudgetExhaustedFlag(srch[s].resp)
      /\ srch[s].resp # [TransformRapidApiResponse(feed, <<>>, "") EXCEPT !.hasMore = FALSE]

\* C7: a first-page failure reaches the caller of searchJobs as an error of
\* its kind, never as a normal empty result.
C7_FirstPageErrorPropagates ==
  \A s \in Slots :
    srch[s].outcome \in {"timeout", "error"} =>
      /\ IsThrown(srch[s].resp)
      /\ srch[s].resp.thrown = srch[s].outcome

\* C8: once a search is abandoned for a search with other parameters, its
\* background loop requests no page beyond the one in flight and emits no
\* further progress.
C8_AbandonedLoopStops ==
  [][\A s \in Slots :
       (srch[s].superseded /\ srch[s].bg = "inflight") =>
         /\ srch'[s].requested = srch[s].requested
         /\ srch'[s].emitted = srch[s].emitted]_vars

\* C9: two background loops for the same (query, location) never run at the
\* same time (that the loop of a search abandoned for other parameters stops
\* is the statement of C8).
C9_OneLoopPerKey ==
  \A s, t \in Slots :
    (s # t /\ srch[s].bg = "inflight" /\ srch[t].bg = "inflight")
      => ~SameSearch(srch[s].params, srch[t].params)

\* the case of C10: pages of 10, 10 and 4 titled records, maxPages = 5, no
\* location filter
TenTenFour(r) ==
  /\ r.served = <<10, 10, 4>>
  /\ feed.untitled = 0
  /\ r.params.maxPages = 5
  /\ r.params.location = ""

\* C10 as stated: the progress channel delivers lists of lengths 10, 20, 24
\* and pages 4 and 5 are never requested.
C10_Original ==
  \A s \in Slots :
    TenTenFour(srch[s]) =>
      /\ Lens(srch[s].emitted) = <<10, 20, 24>>
      /\ srch[s].requested = <<1, 2, 3>>

\* C10 amended: the synchronous result has 10 jobs, the progress callback is
\* invoked with lists of lengths 20 and 24, and only pages 1, 2, 3 are requested.
C10_Amended ==
  \A s \in Slots :
    TenTenFour(srch[s]) =>
      /\ Len(srch[s].resp.jobs) = 10
      /\ Lens(srch[s].emitted) = <<20, 24>>
      /\ srch[s].requested = <<1, 2, 3>>
      /\ srch[s].bg = "done"

C10_Witness ==
  \E s \in Slots : TenTenFour(srch[s]) /\ srch[s].pc = "done"

-----------------------------------------------------------------------------
\* what the consumer of a search receives, in order: the initial result, then
\* the lists passed to the progress callback
Received(r) == <<r.resp.jobs>> \o r.emitted

\* C11: within one search every progress emission strictly extends the one
\* before it (and the first one the initial result), none is repeated, also
\* when a page contributes no job that passes the location filter.
C11_EmissionsStrictlyGrow ==
  \A s \in Slots :
    srch[s].outcome = "ok" =>
      \A i \in 1..Len(srch[s].emitted) :
        /\ Len(Received(srch[s])[i]) < Len(Received(srch[s])[i + 1])
        /\ SubSeq(Received(srch[s])[i + 1], 1, Len(Received(srch[s])[i]))
             = Received(srch[s])[i]

\* C12: a search that entered the background phase and was not abandoned has,
\* once its loop ended, delivered exactly one emission marked as the final one
\* (backgroundLoadComplete), and that one is its last emission.
C12_OneFinalEmission ==
  \A s \in Slots :
    (srch[s].bg = "done" /\ ~srch[s].superseded) =>
      /\ srch[s].emitted # <<>>
      /\ \A i \in 1..Len(srch[s].emitted) :
           ProgressCallback(InitialLoadingState, srch[s].emitted[i]).backgroundLoadComplete
             <=> i = Len(srch[s].emitted)

-----------------------------------------------------------------------------
(* JobCache on its own: cacheJobs, getCachedJobs and the clock *)

\* the searches whose results are stored: one more than the cache holds
CacheIds == 1..(MAX_CACHE_SIZE + 1)

Letters == <<"a", "b", "c", "d", "e", "f", "g", "h">>

\* the query of the i-th search
QueryOf(i) == Letters[((i - 1) \div Len(Letters)) + 1] \o Letters[((i - 1) % Len(Letters)) + 1]

\* the cache keys of these searches (evaluated once)
KeyOfId == [i \in CacheIds |-> GenerateCacheKey(Params(QueryOf(i), "", 0))]

IdOfKey(key) == CHOOSE i \in CacheIds : KeyOfId[i] = key

\* the store after the first n searches were cached, at the times given
Prefilled(n, timeOf) ==
  [key \in {KeyOfId[i] : i \in 1..n} |->
     [data |-> <<IdOfKey(key)>>, timestamp |-> timeOf[IdOfKey(key)], totalResults |-> 1]]

\* the next search not yet cached
NextFresh(c) ==
  LET present == {IdOfKey(key) : key \in DOMAIN c} IN
  IF present = {} THEN 1
  ELSE 1 + CHOOSE i \in present : \A j \in present : j <= i

GetCachedJobs_DropsAll(c, key, t) ==
  [result |-> IF CacheHit(c, key, t)
                THEN [hit |-> TRUE, data |-> c[key].data]
                ELSE [hit |-> FALSE, data |-> <<>>],
   store |-> IF CacheExpired(c, key, t) THEN EmptyCache ELSE c]

\* getCachedJobs: what it returns (hit = FALSE: null) and the store it leaves
GetCachedJobs(c, key, t) ==
  [result |-> IF CacheHit(c, key, t)
                THEN [hit |-> TRUE, data |-> c[key].data]
                ELSE [hit |-> FALSE, data |-> <<>>],
   store |-> IF CacheExpired(c, key, t) THEN RemoveItem(c, key) ELSE c]

CacheTickSteps == {1, CACHE_DURATION - 1, CACHE_DURATION}

AgedEntries == 2       \* the clock advances while the store holds at most this many entries

\* cacheJobs(params, jobs, total), for the first search or the next fresh one
CachePut(i) ==
  /\ cache' \in CacheJobs(cache, KeyOfId[i], <<i>>, 1, now)
  /\ probe' = [op |-> "cacheJobs", key |-> KeyOfId[i]]
  /\ UNCHANGED <<clockVars, budgetVars, searchVars>>

\* getCachedJobs(params); age: now - entry.timestamp of the entry found (-1: none)
CacheGet(i) ==
  LET key == KeyOfId[i] IN
  /\ cache' = GetCachedJobs(cache, key, now).store
  /\ probe' = [op |-> "getCachedJobs", key |-> key,
               result |-> GetCachedJobs(cache, key, now).result,
               age |-> IF key \in DOMAIN cache THEN now - cache[key].timestamp ELSE -1]
  /\ UNCHANGED <<clockVars, budgetVars, searchVars>>

CacheTick ==
  \E d \in CacheTickSteps :
    /\ Cardinality(DOMAIN cache) <= AgedEntries
    /\ Tick(d, FALSE)
    /\ UNCHANGED <<tracker, cache, lastTrack, probe>>
    /\ UNCHANGED <<feed, apiKey, srch, faults, ui, lastSearchParams>>

\* an empty store, or one that holds MAX_CACHE_SIZE - 1 entries written one
\* per millisecond; the request tracker is absent or holds a count
InitCache ==
  /\ month = 0
  /\ ticks = 0
  /\ tracker \in {NoTracker} \cup
                 {[count |-> c, lastReset |-> CurrentMonth(0)] : c \in InitCounts}
  /\ \/ now = 0 /\ cache = EmptyCache
     \/ now = MAX_CACHE_SIZE - 1
          /\ cache = Prefilled(MAX_CACHE_SIZE - 1, [i \in CacheIds |-> i])
  /\ calls = 0
  /\ allowed = 0
  /\ lastTrack = NoResult
  /\ feed = [size |-> 0, untitled |-> 0]
  /\ apiKey = TRUE
  /\ srch = [s \in Slots |-> IdleSearch]
  /\ faults = 0
  /\ upstream = 0
  /\ ui = InitialLoadingState
  /\ lastSearchParams = <<"", "">>
  /\ probe = NoProbe

NextCache ==
  \/ \E i \in {1, NextFresh(cache)} \cap CacheIds : CachePut(i)
  \/ \E i \in {1, NextFresh(cache)} \cap CacheIds : CacheGet(i)
  \/ CacheTick

SpecCache == InitCache /\ [][NextCache]_vars

\* C13: getCachedJobs returns the stored jobs of an entry while
\* now - storedAt < 24 h and null from now - storedAt = 24 h on, and a read
\* that returns the jobs leaves the entry, its storedAt included, as it was.
C13_CacheTTL ==
  [][(probe' # probe /\ probe'.op = "getCachedJobs" /\ probe'.key \in DOMAIN cache) =>
       LET entry == cache[probe'.key] IN
       /\ (now - entry.timestamp < CACHE_DURATION =>
             /\ probe'.result = [hit |-> TRUE, data |-> entry.data]
             /\ cache' = cache)
       /\ (now - entry.timestamp >= CACHE_DURATION => ~probe'.result.hit)]_vars

C13_Witness ==
  /\ probe.op = "getCachedJobs"
  /\ probe.age = CACHE_DURATION
  /\ ~probe.result.hit

\* a step of cacheJobs for the key probe'.key
IsPut == probe'.op = "cacheJobs" /\ now' = now

\* the keys a put has removed, and the storedAt each of them had
Removed == (DOMAIN cache \cup {probe'.key}) \ DOMAIN cache'
StoredAt(key) == IF key = probe'.key THEN now ELSE cache[key].timestamp

\* what C14 says of every put, but for the fate of the entry just written
PutKeepsBound ==
  /\ Cardinality(DOMAIN cache') <= MAX_CACHE_SIZE
  /\ (Cardinality(DOMAIN cache) = MAX_CACHE_SIZE /\ probe'.key \notin DOMAIN cache)
       => Cardinality(DOMAIN cache') = MAX_CACHE_SIZE
  /\ \A gone \in Removed : \A kept \in DOMAIN cache' :
       StoredAt(gone) <= cache'[kept].timestamp
  /\ \A kept \in DOMAIN cache' \ {probe'.key} : cache'[kept] = cache[kept]

\* C14 as stated: every put leaves at most 50 entries, the 51st distinct key
\* leaves exactly 50, the entries removed are the oldest by storedAt, and the
\* entry just written is never among them.
C14_Original ==
  [][IsPut => (PutKeepsBound /\ probe'.key \in DOMAIN cache')]_vars

\* C14 amended: as stated, except that the entry just written is removed when
\* and only when it can be, i.e. it is kept whenever some stored entry has an
\* earlier storedAt than it.
C14_Amended ==
  [][IsPut =>
       /\ PutKeepsBound
       /\ (\E key \in DOMAIN cache : cache[key].timestamp < now)
            => /\ probe'.key \in DOMAIN cache'
               /\ cache'[probe'.key].timestamp = now]_vars

C14_Witness ==
  /\ probe.op = "cacheJobs"
  /\ probe.key = KeyOfId[MAX_CACHE_SIZE + 1]
  /\ probe.key \in DOMAIN cache
  /\ KeyOfId[1] \notin DOMAIN cache
  /\ Cardinality(DOMAIN cache) = MAX_CACHE_SIZE

\* a search has returned to its caller without a job
ReturnedNoJobs(r) == r.pc \in {"returned", "done"} /\ r.resp.jobs = <<>>

\* C15: every stored cache entry holds a non-empty job list, and the step in
\* which a search returns without a job (nothing upstream, everything
\* filtered, refused by the budget, first page failed) leaves the cache as it
\* was, so that the next identical search finds what this one found there.
C15_NoEmptyCached ==
  /\ [](\A key \in DOMAIN cache : Len(cache[key].data) > 0)
  /\ [][\A s \in Slots :
          (~ReturnedNoJobs(srch[s]) /\ ReturnedNoJobs(srch'[s])) => cache' = cache]_vars

C15_Witness ==
  \E s, t \in Slots :
    /\ s < t /\ srch[s].params = srch[t].params
    /\ srch[s].outcome = "ok" /\ ReturnedNoJobs(srch[s])
    /\ srch[t].outcome = "ok" /\ ReturnedNoJobs(srch[t])
    /\ srch[t].requested = <<1>>
    /\ CacheKey(srch[s].params) \notin DOMAIN cache

\* C16: a trackRequest that finds a persisted period other than the current
\* month works on a count of 0: it is allowed, whatever the old count was,
\* and persists count 1 with the period of the current month.
C16_MonthReset ==
  [][(calls' = calls + 1 /\ tracker # NoTracker
        /\ tracker.lastReset # CurrentMonth(month))
       => /\ lastTrack'.canMakeRequest
          /\ lastTrack'.remainingRequests = MAX_REQUESTS_PER_MONTH
          /\ tracker' = [count |-> 1, lastReset |-> CurrentMonth(month)]]_vars

C16_Witness ==
  /\ probe.op = "trackRequest"
  /\ probe.found = [count |-> MAX_REQUESTS_PER_MONTH, lastReset |-> CurrentMonth(0)]
  /\ month = 1
  /\ tracker = [count |-> 1, lastReset |-> CurrentMonth(1)]
  /\ lastTrack.canMakeRequest

-----------------------------------------------------------------------------
(* JobApiService.searchJobs called directly, one call after the other *)

\* searchJobs(params) is entered
SearchJobs(s, p) ==
  /\ srch[s].pc = "idle"
  /\ \A t \in Slots : t < s => (srch[t].pc = "returned" /\ srch[t].bg # "inflight")
  /\ srch' = [srch EXCEPT ![s] = [IdleSearch EXCEPT !.params = p, !.pc = "cacheCheck"]]
  /\ UNCHANGED <<probe, clockVars, budgetVars, cache, feed, apiKey, faults, upstream, ui,
                 lastSearchParams>>

NextSearch ==
  \/ \E s \in Slots, p \in DirectRequests : SearchJobs(s, p)
  \/ \E s \in Slots : CacheCheck(s)
  \/ \E s \in Slots : TrackRead(s)
  \/ \E s \in Slots : TrackWrite(s)
  \/ \E s \in Slots : FirstPageOk(s)
  \/ \E s \in Slots, kind \in FailureKinds : FirstPageFail(s, kind)
  \/ \E s \in Slots : BgPageOk(s)
  \/ \E s \in Slots, kind \in FailureKinds : BgPageFail(s, kind)

\* an upstream that holds more records than the default number of pages asks
\* for in five pages
LongFeeds == {[size |-> 6 * PAGE_SIZE, untitled |-> 0]}

InitSearch ==
  /\ now = 0
  /\ month = 0
  /\ ticks = 0
  /\ tracker \in {NoTracker} \cup
                 {[count |-> c, lastReset |-> CurrentMonth(0)] : c \in InitCounts}
  /\ cache = EmptyCache
  /\ calls = IF tracker = NoTracker THEN 0 ELSE tracker.count
  /\ allowed = calls
  /\ upstream = calls
  /\ lastTrack = NoResult
  /\ feed \in Feeds \cup LongFeeds
  /\ apiKey \in BOOLEAN
  /\ srch = [s \in Slots |-> IdleSearch]
  /\ faults = 0
  /\ ui = InitialLoadingState
  /\ lastSearchParams = <<"", "">>
  /\ probe = NoProbe

SpecSearch == InitSearch /\ [][NextSearch]_vars

\* C17: a search whose query is empty after trimming is rejected before any
\* cost: it consumes no budget, requests nothing upstream and is not answered
\* from the cache.
C17_EmptyQueryRejected ==
  \A s \in Slots :
    (srch[s].pc # "idle" /\ Trim(srch[s].params.query) = "") =>
      /\ srch[s].requested = <<>>
      /\ srch[s].outcome \notin {"hit", "ok", "refused"}

-----------------------------------------------------------------------------
(* JobCache.getRequestStats beside trackRequest *)

RequestStats_OffByOne(trackerData, m) ==
  LET tr == IF trackerData = NoTracker THEN [count |-> 0, lastReset |-> ""]
            ELSE trackerData IN
  [used |-> tr.count,
   remaining |-> Max(0, MAX_REQUESTS_PER_MONTH - tr.count - 1),
   resetDate |-> CurrentMonth(m + 1)]

\* getRequestStats: { used, remaining, resetDate }, resetDate being the first
\* day of the month after the current one
RequestStats(trackerData, m) ==
  LET tr == IF trackerData = NoTracker THEN [count |-> 0, lastReset |-> ""]
            ELSE trackerData IN
  [used |-> tr.count,
   remaining |-> Max(0, MAX_REQUESTS_PER_MONTH - tr.count),
   resetDate |-> CurrentMonth(m + 1)]

GetRequestStats ==
  /\ probe' = [op |-> "getRequestStats", result |-> RequestStats(tracker, month)]
  /\ UNCHANGED <<clockVars, budgetVars, cache, searchVars>>

\* the budget as InitBudget has it, with or without a stored cache entry
InitStats ==
  /\ now = 0
  /\ month = 0
  /\ ticks = 0
  /\ tracker \in {NoTracker, [count |-> 0, lastReset |-> CurrentMonth(0)]}
  /\ cache \in {EmptyCache, Prefilled(1, [i \in CacheIds |-> 0])}
  /\ calls = 0
  /\ allowed = 0
  /\ lastTrack = NoResult
  /\ feed = [size |-> 0, untitled |-> 0]
  /\ apiKey = TRUE
  /\ srch = [s \in Slots |-> IdleSearch]
  /\ faults = 0
  /\ upstream = 0
  /\ ui = InitialLoadingState
  /\ lastSearchParams = <<"", "">>
  /\ probe = NoProbe

\* clearAllCachedData: await jobCache.clearCache() (removed: the number of
\* stored items it removed)
ClearAllCachedData ==
  /\ cache' = ClearCache(cache)
  /\ tracker' = ClearTracker(tracker)
  /\ probe' = [op |-> "clearCache",
               removed |-> Cardinality(DOMAIN cache) - Cardinality(DOMAIN cache')
                             + (IF tracker' = tracker THEN 0 ELSE 1)]
  /\ UNCHANGED <<clockVars, calls, allowed, lastTrack, searchVars>>

NextStats == TrackRequest \/ BudgetTick \/ GetRequestStats \/ ClearAllCachedData

SpecStats == InitStats /\ [][NextStats]_vars

\* C18: getRequestStats changes neither the persisted tracker nor any cache
\* entry, and the used and remaining it returns add up to the ceiling
\* whenever used is at most the ceiling.
C18_StatsReadOnly ==
  [][probe'.op = "getRequestStats" =>
       /\ (probe' # probe => (tracker' = tracker /\ cache' = cache))
       /\ (probe'.result.used <= MAX_REQUESTS_PER_MONTH =>
             probe'.result.used + probe'.result.remaining = MAX_REQUESTS_PER_MONTH)]_vars

C18_Witness ==
  /\ probe.op = "getRequestStats"
  /\ probe.result.used = MAX_REQUESTS_PER_MONTH
  /\ probe.result.remaining = 0
  /\ tracker.count = MAX_REQUESTS_PER_MONTH
  /\ cache # EmptyCache

-----------------------------------------------------------------------------
(* JobApiService.filterJobsByLocation on its own *)

\* the jobs of the lists it is given: two located in Austin, TX and one in
\* Boston, MA
FilterJobs == {RawId("dev", 1), RawId("dev", 2), RawId("dev", 3)}

MaxJobs == 3           \* length of the job lists

JobLists == UNION {[1..n -> FilterJobs] : n \in 0..MaxJobs}

FilterJobsCall ==
  /\ probe.op = "filterJobsByLocation"
  /\ ~probe.returned
  /\ probe' = [probe EXCEPT
                 !.returned = TRUE,
                 !.result = FilterJobsByLocation(probe.jobs, probe.requestedLocation)]
  /\ UNCHANGED <<clockVars, budgetVars, cache, searchVars>>

InitFilter ==
  /\ now = 0
  /\ month = 0
  /\ ticks = 0
  /\ tracker = NoTracker
  /\ cache = EmptyCache
  /\ calls = 0
  /\ allowed = 0
  /\ lastTrack = NoResult
  /\ feed = [size |-> 0, untitled |-> 0]
  /\ apiKey = TRUE
  /\ srch = [s \in Slots |-> IdleSearch]
  /\ faults = 0
  /\ upstream = 0
  /\ ui = InitialLoadingState
  /\ lastSearchParams = <<"", "">>
  /\ probe \in [op : {"filterJobsByLocation"}, jobs : JobLists,
                requestedLocation : FilterLocations, returned : {FALSE},
                result : {<<>>}]

NextFilter == FilterJobsCall

SpecFilter == InitFilter /\ [][NextFilter]_vars

\* C19: of jobs located in Austin, TX and Boston, MA, filterJobsByLocation
\* with "Texas" returns the Austin jobs only, in their order, and with "" or
\* blanks only it returns the list it was given.
C19_LocationFilter ==
  (probe.op = "filterJobsByLocation" /\ probe.returned) =>
    /\ probe.requestedLocation = "Texas" =>
         probe.result = SelectSeq(probe.jobs, LAMBDA id : RawCity(id) = "Austin")
    /\ probe.requestedLocation \in {"", " "} => probe.result = probe.jobs

C19_Witness ==
  /\ probe.op = "filterJobsByLocation" /\ probe.returned
  /\ probe.requestedLocation = "Texas"
  /\ probe.jobs = <<RawId("dev", 1), RawId("dev", 2)>>
  /\ FormatLocation(probe.jobs[1]) = "Austin, TX"
  /\ FormatLocation(probe.jobs[2]) = "Boston, MA"
  /\ probe.result = <<RawId("dev", 1)>>

\* C20: a background page that timed out is requested again rather than
\* skipped: while the loop has page p in flight, every page before p has been
\* answered (no page is passed over after a single timeout).
C20_TimeoutRetriesSamePage ==
  \A s \in Slots :
    (srch[s].bg = "inflight" /\ faults <= 1) =>
      Len(srch[s].served) >= srch[s].page - 1

-----------------------------------------------------------------------------
(* The background loop: failures, entry and termination.                    *)

RECURSIVE SumSeq(_)
SumSeq(q) == IF q = <<>> THEN 0 ELSE Head(q) + SumSeq(Tail(q))

FailedWithError(r) == r.bgFault # <<>> /\ r.bgFault[1] = "error"

\* C21: after a background page request failed with a non-timeout error the
\* loop is over and the failed page is the last one requested; the caller of
\* the search got no exception; the initial result is the transformed first
\* page, the accumulation buffer holds the records of every answered page and
\* the last emission is still the transformation of that buffer.
C21_ErrorStopsLoop ==
  \A s \in Slots :
    LET r == srch[s]
        first == UpstreamPage(feed, r.params, 1)
    IN
    FailedWithError(r) =>
      /\ r.bg = "done"
      /\ r.requested[Len(r.requested)] = r.bgFault[2]
      /\ r.outcome = "ok"
      /\ ~IsThrown(r.resp)
      /\ r.resp.jobs = TransformRapidApiResponse(feed, first, r.params.location).jobs
      /\ Len(r.allJobs) = SumSeq(r.served)
      /\ SubSeq(r.allJobs, 1, Len(first)) = first
      /\ r.emitted # <<>> =>
           r.emitted[Len(r.emitted)]
             = TransformRapidApiResponse(feed, r.allJobs, r.params.location).jobs

\* the request for page 3 failed with an error after page 2 had been emitted
C21_Witness ==
  \E s \in Slots :
    /\ srch[s].bgFault = <<"error", 3>>
    /\ Len(srch[s].emitted) = 1
    /\ Len(srch[s].allJobs) = 2 * PAGE_SIZE

-----------------------------------------------------------------------------
(* Entry into the background phase *)

FirstPageAnswered(r) == r.outcome = "ok"

\* the first page is a full page and more than one page is asked for, the
\* number of pages of a request that does not set maxPages being d
MorePagesWanted(r, d) ==
  /\ Len(UpstreamPage(feed, r.params, 1)) >= 10
  /\ (IF r.params.maxPages = 0 THEN d ELSE r.params.maxPages) > 1

\* the loop of r ran to its end without a failed request
RanUndisturbed(r) == r.bg = "done" /\ r.bgFault = <<>>

\* the background phase is entered exactly on a full first page with
\* maxPages > 1, else nothing more is requested; hasMore tells which
EntryRule(r, d) ==
  /\ r.bg # "none" <=> MorePagesWanted(r, d)
  /\ ~MorePagesWanted(r, d) => r.requested = <<1>>
  /\ r.resp.hasMore <=> MorePagesWanted(r, d)

-----------------------------------------------------------------------------
(* Course and end of the background loop *)

\* answers of the background pages of r, in the order they arrived
BgServed(r) == SubSeq(r.served, 2, Len(r.served))

\* C23: the pages requested are 1, 2, 3, ... in this order and none is beyond
\* maxPages; a background page with no record ends the loop without an
\* emission, one with fewer than 10 records ends it after its emission, so
\* only the last answer can be short and every non-empty answer has its
\* emission; a request is outstanding only while the loop runs, and at most
\* maxPages - 1 background pages are fetched.
C23_LoopBounded ==
  \A s \in Slots :
    LET r == srch[s]
        maxPages == IF r.params.maxPages = 0 THEN 10 ELSE r.params.maxPages
        bgServed == BgServed(r)
    IN
    FirstPageAnswered(r) =>
      /\ \A i \in 1..Len(r.requested) : r.requested[i] = i
      /\ Len(r.requested) <= maxPages
      /\ Len(bgServed) <= maxPages - 1
      /\ \A j \in 1..Len(bgServed) :
           bgServed[j] < 10 => (j = Len(bgServed) /\ r.bg = "done")
      /\ Len(r.emitted) = Cardinality({j \in 1..Len(bgServed) : bgServed[j] > 0})
      /\ Len(r.requested) - Len(r.served) <= faults + (IF r.bg = "inflight" THEN 1 ELSE 0)
      /\ r.bg = "inflight" => Len(r.requested) > Len(r.served)

\* one loop ended at maxPages = 5 with every page full, another one on the
\* empty page 7 that got no emission
C23_Witness ==
  /\ faults = 0
  /\ \E s \in Slots :
       /\ srch[s].bg = "done"
       /\ srch[s].params.maxPages = 5
       /\ srch[s].served = <<10, 10, 10, 10, 10>>
       /\ Len(srch[s].emitted) = 4
  /\ \E s \in Slots :
       /\ srch[s].bg = "done"
       /\ srch[s].served = <<10, 10, 10, 10, 10, 10, 0>>
       /\ Len(srch[s].emitted) = 5

-----------------------------------------------------------------------------
(* The value trackRequest reports *)

\* C24: an allowed trackRequest reports remaining = ceiling - usedCount with
\* the usedCount it has just stored (199 after the first call of a month, 0
\* after the 200th), a refused one reports remaining = 0.
C24_RemainingAfterIncrement ==
  probe.op = "trackRequest" =>
    lastTrack.remainingRequests =
      (IF lastTrack.canMakeRequest THEN MAX_REQUESTS_PER_MONTH - tracker.count ELSE 0)

-----------------------------------------------------------------------------
(* getRequestStats in a new month *)

\* C25: a getRequestStats call made while the persisted period is not the
\* current calendar month (no trackRequest of the new month has run yet)
\* reports used = 0 and remaining = ceiling.
C25_StatsRespectReset ==
  [][(/\ probe'.op = "getRequestStats"
      /\ probe' # probe
      /\ tracker # NoTracker
      /\ tracker.lastReset # CurrentMonth(month))
       => /\ probe'.result.used = 0
          /\ probe'.result.remaining = MAX_REQUESTS_PER_MONTH]_vars

-----------------------------------------------------------------------------
(* Lazy expiry *)

\* a step of getCachedJobs for the key probe'.key
IsGet == probe'.op = "getCachedJobs" /\ probe' # probe

\* C26: a getCachedJobs that finds an entry with now - storedAt >= 24 h
\* returns null and removes this entry and nothing else: every other cache
\* entry and the request tracker stay as they were; a getCachedJobs that
\* finds a valid entry or none changes neither the cache nor the tracker.
C26_LazyExpiry ==
  [][IsGet =>
       LET key == probe'.key IN
       /\ tracker' = tracker
       /\ IF key \in DOMAIN cache /\ now - cache[key].timestamp >= CACHE_DURATION
            THEN /\ ~probe'.result.hit
                 /\ DOMAIN cache' = DOMAIN cache \ {key}
                 /\ \A other \in DOMAIN cache' : cache'[other] = cache[other]
            ELSE cache' = cache]_vars

\* an expired entry was looked up and is gone, another entry and the tracker
\* are still there
C26_Witness ==
  /\ probe.op = "getCachedJobs"
  /\ probe.age >= CACHE_DURATION
  /\ ~probe.result.hit
  /\ probe.key \notin DOMAIN cache
  /\ cache # EmptyCache
  /\ tracker # NoTracker

-----------------------------------------------------------------------------
(* The cache key: cacheJobs and getCachedJobs for searches that differ in    *)
(* letter case or in other characters                                       *)

KeyRequests ==
  <<Params("c++", "", 0), Params("c#", "", 0), Params("C#", "", 0),
    Params("dev", "a,b", 0), Params("dev", "a b", 0), Params("Dev", "A,B", 0),
    Params("dev", "", 0), Params("DEV", "", 0)>>

KeyIds == 1..Len(KeyRequests)

\* the cache keys of these searches (evaluated once)
KeyOfSearch == [i \in KeyIds |-> GenerateCacheKey(KeyRequests[i])]

\* cacheJobs(params, jobs, total) for the i-th search, the job being its own
CacheJobsFor(i) ==
  /\ cache' \in CacheJobs(cache, KeyOfSearch[i], <<i>>, 1, now)
  /\ probe' = [op |-> "cacheJobs", search |-> i]
  /\ UNCHANGED <<clockVars, budgetVars, searchVars>>

\* getCachedJobs(params) for the i-th search
GetCachedJobsFor(i) ==
  /\ cache' = GetCachedJobs(cache, KeyOfSearch[i], now).store
  /\ probe' = [op |-> "getCachedJobs", search |-> i,
               result |-> GetCachedJobs(cache, KeyOfSearch[i], now).result]
  /\ UNCHANGED <<clockVars, budgetVars, searchVars>>

InitKeys ==
  /\ now = 0
  /\ month = 0
  /\ ticks = 0
  /\ tracker = NoTracker
  /\ cache = EmptyCache
  /\ calls = 0
  /\ allowed = 0
  /\ lastTrack = NoResult
  /\ feed = [size |-> 0, untitled |-> 0]
  /\ apiKey = TRUE
  /\ srch = [s \in Slots |-> IdleSearch]
  /\ faults = 0
  /\ upstream = 0
  /\ ui = InitialLoadingState
  /\ lastSearchParams = <<"", "">>
  /\ probe = NoProbe

NextKeys ==
  \/ \E i \in KeyIds : CacheJobsFor(i)
  \/ \E i \in KeyIds : GetCachedJobsFor(i)

SpecKeys == InitKeys /\ [][NextKeys]_vars

\* the four fields agree once letters are lower-cased (evaluated once)
SameIdentity ==
  [i \in KeyIds, j \in KeyIds |->
     LET p == KeyRequests[i]
         q == KeyRequests[j] IN
     /\ ToLowerCase(p.query) = ToLowerCase(q.query)
     /\ ToLowerCase(p.location) = ToLowerCase(q.location)
     /\ ToLowerCase(p.jobType) = ToLowerCase(q.jobType)
     /\ ToLowerCase(p.experienceLevel) = ToLowerCase(q.experienceLevel)]

\* the searches whose results the cache holds
Writers == {cache[key].data[1] : key \in DOMAIN cache}

\* C27: a search reads from the cache exactly what was stored for a search
\* with the same (query, location, jobType, experienceLevel) up to letter
\* case: a lookup is answered when the results of such a search are stored,
\* and what it is answered with was stored for such a search, never for one
\* that differs in another character ("c++" and "c#", "a,b" and "a b").
C27_KeyIdentity ==
  probe.op = "getCachedJobs" =>
    /\ (\E w \in Writers : SameIdentity[probe.search, w]) => probe.result.hit
    /\ probe.result.hit => SameIdentity[probe.search, probe.result.data[1]]

-----------------------------------------------------------------------------
(* Budget and upstream requests of one searchJobs call *)

UsedCount(trackerData) == IF trackerData = NoTracker THEN 0 ELSE trackerData.count

\* searchJobs of slot s returns in this step without having sent a request
ReturnsWithoutRequest(s) ==
  /\ srch[s].pc # "returned"
  /\ srch'[s].pc = "returned"
  /\ srch'[s].requested = <<>>

\* C28: a searchJobs call that returns without an upstream request (cache
\* hit, budget refusal, no API key) leaves the persisted usedCount as it was.
C28_NoRequestNoBudget ==
  [][\A s \in Slots :
       ReturnsWithoutRequest(s) => UsedCount(tracker') = UsedCount(tracker)]_vars

-----------------------------------------------------------------------------
(* trackRequest over a store that can fail *)

\* the catch block of trackRequest
TrackFallback == [canMakeRequest |-> TRUE, remainingRequests |-> 999]

StorePoints == {"getItem", "setItem"}

\* trackRequest when AsyncStorage throws at the given call: nothing is
\* written, the catch block returns (setItem is reached only by a call that
\* is allowed)
TrackRequestFails(point) ==
  /\ calls < MAX_REQUESTS_PER_MONTH + ExtraCalls
  /\ point = "setItem" => CanMakeRequest(LoadTracker(tracker, month))
  /\ lastTrack' = TrackFallback
  /\ calls' = calls + 1
  /\ allowed' = allowed + 1
  /\ probe' = [op |-> "trackRequest", found |-> tracker, failed |-> point]
  /\ UNCHANGED <<tracker, clockVars, cache, searchVars>>

\* the budget of a month that is nearly used up
InitFaulty ==
  /\ now = 0
  /\ month = 0
  /\ ticks = 0
  /\ tracker \in {[count |-> c, lastReset |-> CurrentMonth(0)] : c \in InitCounts}
  /\ cache = EmptyCache
  /\ calls = tracker.count
  /\ allowed = calls
  /\ lastTrack = NoResult
  /\ feed = [size |-> 0, untitled |-> 0]
  /\ apiKey = TRUE
  /\ srch = [s \in Slots |-> IdleSearch]
  /\ faults = 0
  /\ upstream = 0
  /\ ui = InitialLoadingState
  /\ lastSearchParams = <<"", "">>
  /\ probe = NoProbe

NextFaulty ==
  \/ TrackRequest
  \/ \E point \in StorePoints : TrackRequestFails(point)
  \/ BudgetTick

SpecFaulty == InitFaulty /\ [][NextFaulty]_vars

\* a trackRequest call during which the store threw
IsFailedTrack ==
  /\ probe'.op = "trackRequest"
  /\ "failed" \in DOMAIN probe'
  /\ calls' = calls + 1

\* C29: a trackRequest during which the store throws leaves the persisted
\* usedCount as it was and reports allowed = true only if the month's budget
\* is not used up.
C29_FailureKeepsBudget ==
  [][IsFailedTrack =>
       /\ UsedCount(tracker') = UsedCount(tracker)
       /\ lastTrack'.canMakeRequest => CanMakeRequest(LoadTracker(tracker, month))]_vars

-----------------------------------------------------------------------------
(* Clearing the cache *)

\* a step of clearAllCachedData
IsClear == probe'.op = "clearCache" /\ probe' # probe

\* C30: clearAllCachedData removes every cache entry and leaves the persisted
\* request tracker (count and period) as it was, so that the next
\* trackRequest and getRequestStats answer as they would have without it: no
\* budget comes back, however often the cache is cleared.
C30_ClearKeepsBudget ==
  [][IsClear =>
       /\ cache' = EmptyCache
       /\ tracker' = tracker
       /\ TrackResult(LoadTracker(tracker', month')) = TrackResult(LoadTracker(tracker, month))
       /\ RequestStats(tracker', month') = RequestStats(tracker, month)]_vars

\* the cache entry was cleared while the budget of the month was used up
C30_Witness ==
  /\ probe.op = "clearCache"
  /\ probe.removed = 1
  /\ cache = EmptyCache
  /\ tracker = [count |-> MAX_REQUESTS_PER_MONTH, lastReset |-> CurrentMonth(month)]
  /\ ~TrackResult(LoadTracker(tracker, month)).canMakeRequest

=============================================================================
